---------------------------- MODULE Spec2Model ----------------------------
(***************************************************************************)
(* Model of the elections API's area route, results_by_area                *)
(* (api/views.py), over a store holding the rows of api/models.py.         *)
(*                                                                         *)
(* A request is a path (event_type, year, area and an optional area_id)    *)
(* and a query string, all of them strings; "" stands for a query          *)
(* parameter that is absent or empty, which request.args.get() reports as  *)
(* a false value either way.  A response is the JSON body and status the   *)
(* handler produces, or the unhandled fault the hosting layer reports.     *)
(***************************************************************************)
EXTENDS Integers, Sequences, FiniteSets, TLC

VARIABLES
    store,      \* the rows of the four area tables
    phase,      \* "idle": waiting for a request; "done": a response is out
    req,        \* the request being answered
    resp,       \* its response
    log         \* what logger.debug wrote while answering it

vars == <<store, phase, req, resp, log>>

-----------------------------------------------------------------------------
(* Bounds *)

\* Natural identifiers of every area kind are 1..MaxId.
MaxId == 2
\* page and per_page literals are the decimal forms of -1..MaxPage.
MaxPage == 2
\* A request differs from the plain listing request in at most MaxParts parts.
MaxParts == 3

-----------------------------------------------------------------------------
(* Module constants of api/views.py *)

event_types == <<"provincial", "national">>
years == <<1999, 2004, 2009>>
areas == <<"province", "municipality", "ward", "voting_district">>

DefaultPage == 0
DefaultPerPage == 50
WardCutoff == 2009

Range(seq) == {seq[i] : i \in 1..Len(seq)}

\* list.index(x)
Index(seq, x) == CHOOSE i \in 1..Len(seq) : seq[i] = x

\* reversed(list)
Reversed(seq) == [i \in 1..Len(seq) |-> seq[Len(seq) + 1 - i]]

-----------------------------------------------------------------------------
(* Strings *)

\* The integers whose decimal form occurs in a request, a row or a link.
IntDomain == (-1..(MaxPage + 2)) \cup (1..MaxId) \cup Range(years) \cup {2014}

\* The decimal form of each of them.
Decimal == [n \in IntDomain |-> ToString(n)]

\* str(n)
Str(n) == IF n \in IntDomain THEN Decimal[n] ELSE ToString(n)

\* int(s): the integer whose decimal form s is; ValueError when there is none.
IsInt(s) == \E n \in IntDomain : Decimal[n] = s
ParseInt(s) == CHOOSE n \in IntDomain : Decimal[n] = s

\* str.lower() on the path segments a request may carry.
Lower(s) ==
    CASE s = "Provincial" -> "provincial"
      [] s = "Ward" -> "ward"
      [] OTHER -> s

\* Python's truth value of what request.args.get() returns.
Truthy(s) == s # ""

-----------------------------------------------------------------------------
(* Rows (api/models.py).  A foreign key that is NULL is 0. *)

NULL == 0

Row(kind, pk, year, id, province_pk, municipality_pk, ward_pk) ==
    [kind |-> kind, pk |-> pk, year |-> year, id |-> id,
     province_pk |-> province_pk, municipality_pk |-> municipality_pk,
     ward_pk |-> ward_pk]

\* Model.query.first() on no row.
None == Row("None", NULL, 0, 0, NULL, NULL, NULL)

\* The rows of one table.
Table(kind) == {r \in store : r.kind = kind}

\* The foreign key of a row that refers to the table of kind parent.
ParentPk(r, parent) ==
    CASE parent = "province" -> r.province_pk
      [] parent = "municipality" -> r.municipality_pk
      [] parent = "ward" -> r.ward_pk

\* model_filters: whether the area's table has a relationship to the filter's.
HasModelFilter(area, filter) ==
    \/ area = "municipality" /\ filter \in {"province"}
    \/ area = "ward" /\ filter \in {"province", "municipality"}
    \/ area = "voting_district" /\ filter \in {"province", "municipality", "ward"}

\* The unique indexes (year, natural identifier) and the primary keys.
UniqueIndexes(s) ==
    \A r, q \in s :
        r.kind = q.kind /\ r # q =>
            /\ r.pk # q.pk
            /\ ~(r.year = q.year /\ r.id = q.id)

\* Every foreign key is NULL or names a row of the parent table, of the same year.
ForeignKeys(s) ==
    \A r \in s : \A parent \in {"province", "municipality", "ward"} :
        ParentPk(r, parent) # NULL =>
            \E p \in s : /\ p.kind = parent
                         /\ p.pk = ParentPk(r, parent)
                         /\ p.year = r.year

\* The primary key a row gets: one per (year, natural identifier) of its table.
PkOf(year, id) == (Index(years, year) - 1) * MaxId + id

\* The parent of the row with natural identifier id, when every fan-th parent
\* has children: with fan = 1 every child belongs to parent 1, and the other
\* parents have none.
ParentId(id, fan) == ((id - 1) % fan) + 1

\* Whether the rows of a kind are collected in a year: wards from 2009 on.
Collected(kind, year) == kind # "ward" \/ year >= WardCutoff

\* The row of a kind, a year and a natural identifier, with its denormalised
\* references to every coarser table whose rows the year holds.
RowOf(kind, year, id, fan) ==
    LET level == Index(areas, kind)
        up1 == ParentId(id, fan)
        ref(parent) ==
            IF Index(areas, parent) < level /\ Collected(parent, year)
            THEN PkOf(year, up1)
            ELSE NULL
    IN  Row(kind, PkOf(year, id), year, id,
            ref("province"), ref("municipality"), ref("ward"))

\* What the ingestion of a year leaves when it loaded the depth coarsest tables.
Ingested(year, depth, fan) ==
    {RowOf(areas[level], year, id, fan) :
        level \in {l \in 1..depth : Collected(areas[l], year)}, id \in 1..MaxId}

-----------------------------------------------------------------------------
(* Requests and responses *)

ArgNames == {"province", "municipality", "ward", "voting_district",
             "page", "per_page", "all_results"}

\* request.args of a request without a query string.
NoArgs ==
    [province |-> "", municipality |-> "", ward |-> "", voting_district |-> "",
     page |-> "", per_page |-> "", all_results |-> ""]

Request(event_type, year, area, area_id, args, via) ==
    [event_type |-> event_type, year |-> year, area |-> area,
     area_id |-> area_id, args |-> args, via |-> via]

Response(status_code, kind, message, count, next, results) ==
    [status_code |-> status_code, kind |-> kind, message |-> message,
     count |-> count, next |-> next, results |-> results]

NoRequest == Request("", "", "", "", NoArgs, "")
NoResponse == Response(0, "none", "", 0, <<>>, <<>>)

\* handle_api_exception(ApiException(status_code, message))
ApiException(status_code, message) ==
    Response(status_code, "error", message, 0, <<>>, <<>>)

\* An exception that is no ApiException: flask answers 500.
Fault == Response(500, "fault", "", 0, <<>>, <<>>)

\* jsonify(out), out the serialized record of one row.
Record(record) == Response(200, "record", "", 0, <<>>, <<record>>)

\* jsonify(out), out the envelope; next is <<>> for null, <<link>> for a link.
Envelope(count, next, results) ==
    Response(200, "envelope", "", count, next, results)

Outcome(response, logged) == [resp |-> response, log |-> logged]

-----------------------------------------------------------------------------
(* Validators *)

Valid(value) == [ok |-> TRUE, value |-> value, error |-> NoResponse]
Invalid(value, message) ==
    [ok |-> FALSE, value |-> value, error |-> ApiException(422, message)]

validate_event_type(event_type) ==
    IF Lower(event_type) \in Range(event_types)
    THEN Valid(Lower(event_type))
    ELSE Invalid("", "Incorrect event_type specified.")

validate_year(year) ==
    IF ~IsInt(year) THEN Invalid(0, "Incorrect year specified.")
    ELSE IF ParseInt(year) \notin Range(years)
         THEN Invalid(0, "Incorrect year specified.")
         ELSE Valid(ParseInt(year))

validate_area(area) ==
    IF Lower(area) \in Range(areas)
    THEN Valid(Lower(area))
    ELSE Invalid("", "Incorrect area specified.")

-----------------------------------------------------------------------------
(* The filter parameter *)

\* The scan with the coarsest area first.
FilterScanForward == areas

\* The order in which the query parameters are looked at.
FilterScan == Reversed(areas)

\* The first area of the scan that the query string gives a value, or "".
filter_area(args) ==
    LET present == {i \in 1..Len(FilterScan) : Truthy(args[FilterScan[i]])}
    IN  IF present = {} THEN ""
        ELSE FilterScan[CHOOSE i \in present : \A j \in present : i <= j]

filter_id(args) ==
    IF filter_area(args) = "" THEN "" ELSE args[filter_area(args)]

\* The refusal that lets an area filter itself.
NotViableStrict(filter, area) == Index(areas, filter) > Index(areas, area)

\* Whether the filter is refused for the area.
NotViable(filter, area) == Index(areas, filter) >= Index(areas, area)

-----------------------------------------------------------------------------
(* Paging *)

page_of(args) ==
    IF ~Truthy(args.page) THEN Valid(DefaultPage)
    ELSE IF IsInt(args.page) THEN Valid(ParseInt(args.page))
         ELSE Invalid(0, "Please specify a valid 'page'.")

per_page_of(args) ==
    IF ~Truthy(args.per_page) THEN Valid(DefaultPerPage)
    ELSE IF IsInt(args.per_page) THEN Valid(ParseInt(args.per_page))
         ELSE Invalid(0, "Please specify a valid 'per_page'.")

all_results_of(args) == Truthy(args.all_results)

\* The link that is also given when the page is the last full one.
HasNextInclusive(count, page, per_page) == count >= (page + 1) * per_page

\* Whether the envelope carries a link to the next page.
HasNext(count, page, per_page) == count > (page + 1) * per_page

\* request.url_root + event_type + "/" + str(year) + "/" + area + "/?page=" + str(page+1)
NextLink(event_type, year, area, page) ==
    Request(event_type, Str(year), area, "",
            [NoArgs EXCEPT !.page = Str(page + 1)], "next")

-----------------------------------------------------------------------------
(* Queries *)

\* column == value, the value a string of the URL: it matches the row whose
\* identifier has that decimal form.
IdEq(r, value) == Str(r.id) = value

\* Query.first(), no order given: any of the rows, or None when there is none.
First(rows) == IF rows = {} THEN {None} ELSE rows

\* Query.order_by(natural identifier)
RECURSIVE OrderBy(_)
OrderBy(rows) ==
    IF rows = {} THEN <<>>
    ELSE LET least == CHOOSE r \in rows : \A q \in rows : r.id <= q.id
         IN  <<least>> \o OrderBy(rows \ {least})

Min(a, b) == IF a <= b THEN a ELSE b

Fetched(rows) == [fault |-> FALSE, rows |-> rows]
QueryError == [fault |-> TRUE, rows |-> <<>>]

\* Query.limit(limit).offset(offset).all() on the ordered rows.  A negative
\* LIMIT or OFFSET is an error to one database and no limit, or no offset, to
\* another: either may happen.
LimitOffset(rows, limit, offset) ==
    LET from == IF offset < 0 THEN 0 ELSE offset
        upto == IF limit < 0 THEN Len(rows) ELSE Min(Len(rows), from + limit)
    IN  {Fetched(SubSeq(rows, from + 1, upto))}
            \cup (IF limit < 0 \/ offset < 0 THEN {QueryError} ELSE {})

\* The rows of the collection: the area's rows of the year, under a filter
\* those whose reference to the filter's table is the filter entity.
Unfiltered(area, year) == {r \in Table(area) : r.year = year}
Filtered(area, year, filter, obj) ==
    {r \in Table(area) : r.year = year /\ ParentPk(r, filter) = obj.pk}

\* The rows the single-entity branch looks up: those of the area's table with
\* the identifier.  The query has no term for the year.
Lookup(area, year, area_id) == {r \in Table(area) : IdEq(r, area_id)}

\* The rows the filtered branch may filter on: those of the filter's table
\* with the identifier.  The query has no term for the year.
FilterEntity(filter, year, id) == {r \in Table(filter) : IdEq(r, id)}

\* The fetch that pages whatever all_results says.
ItemsPaged(rows, all_results, page, per_page) ==
    LimitOffset(OrderBy(rows), per_page, page * per_page)

\* The fetch whose offset is the page number.
ItemsByPage(rows, all_results, page, per_page) ==
    IF all_results THEN {Fetched(OrderBy(rows))}
    ELSE LimitOffset(OrderBy(rows), per_page, page)

\* Which of the ordered rows the collection branches fetch.
Items(rows, all_results, page, per_page) ==
    IF all_results THEN {Fetched(OrderBy(rows))}
    ELSE LimitOffset(OrderBy(rows), per_page, page * per_page)

-----------------------------------------------------------------------------
(* serialize_area (api/serializers.py) *)

\* The record of a row: the row's figures for the event type.
serialize_area(item, event_type) == [area |-> item, event_type |-> event_type]

\* It reads the row's fields, and has none to read when given None.
Serializable(item) == item # None

-----------------------------------------------------------------------------
(* results_by_area *)

\* The collection that answers an empty list with an envelope.
CollectionEmptyOk(event_type, year, area, rows, all_results, page, per_page) ==
    {IF f.fault THEN Fault
     ELSE Envelope(Cardinality(rows),
                   IF HasNext(Cardinality(rows), page, per_page)
                   THEN <<NextLink(event_type, year, area, page)>>
                   ELSE <<>>,
                   [i \in 1..Len(f.rows) |-> serialize_area(f.rows[i], event_type)]) :
        f \in Items(rows, all_results, page, per_page)}

\* The envelope of a collection, or what stands in for it: lines 252-264.
Collection(event_type, year, area, rows, all_results, page, per_page) ==
    {IF f.fault THEN Fault
     ELSE IF Len(f.rows) = 0 THEN ApiException(404, "Not Found")
     ELSE Envelope(Cardinality(rows),
                   IF HasNext(Cardinality(rows), page, per_page)
                   THEN <<NextLink(event_type, year, area, page)>>
                   ELSE <<>>,
                   [i \in 1..Len(f.rows) |-> serialize_area(f.rows[i], event_type)]) :
        f \in Items(rows, all_results, page, per_page)}

\* Every outcome the handler may have on a request: its response and what it
\* logged, <<filter_area, filter_id>> for "filtering: <area> - <id>".
results_by_area(event_type, year, area, area_id, args) ==
    LET e == validate_event_type(event_type)
        y == validate_year(year)
        a == validate_area(area)
        filter == filter_area(args)
        id == filter_id(args)
        page == page_of(args)
        per_page == per_page_of(args)
        all_results == all_results_of(args)
    IN  IF ~e.ok THEN {Outcome(e.error, <<>>)}
        ELSE IF ~y.ok THEN {Outcome(y.error, <<>>)}
        ELSE IF ~a.ok THEN {Outcome(a.error, <<>>)}
        ELSE IF filter # "" /\ NotViable(filter, a.value)
        THEN {Outcome(ApiException(422,
                  "The specified filter parameter cannot be used in this query."),
                  <<>>)}
        ELSE IF ~page.ok THEN {Outcome(page.error, <<>>)}
        ELSE IF ~per_page.ok THEN {Outcome(per_page.error, <<>>)}
        ELSE IF Truthy(area_id)
        THEN {Outcome(IF Serializable(out)
                      THEN Record(serialize_area(out, e.value))
                      ELSE Fault,
                      <<>>) :
                 out \in First(Lookup(a.value, y.value, area_id))}
        ELSE IF filter # "" /\ Truthy(id)
        THEN UNION {
                 IF obj = None
                 THEN {Outcome(ApiException(404,
                           "Could not find the specified filter."),
                           <<filter, id>>)}
                 ELSE IF ~HasModelFilter(a.value, filter)
                 THEN {Outcome(Fault, <<filter, id>>)}
                 ELSE {Outcome(r, <<filter, id>>) :
                          r \in Collection(e.value, y.value, a.value,
                                    Filtered(a.value, y.value, filter, obj),
                                    all_results, page.value, per_page.value)} :
                 obj \in First(FilterEntity(filter, y.value, id))}
        ELSE {Outcome(r, <<>>) :
                 r \in Collection(e.value, y.value, a.value,
                           Unfiltered(a.value, y.value),
                           all_results, page.value, per_page.value)}

-----------------------------------------------------------------------------
(* The requests a client sends *)

EventTypeInputs == {"national", "Provincial", "local"}
YearInputs == {"1999", "2009", "2014", "20o9"}
AreaInputs == {"province", "municipality", "Ward", "voting_district", "country"}
IdInputs == {Str(i) : i \in 1..MaxId}
PageInputs == {Str(n) : n \in -1..MaxPage} \cup {"x"}

\* The plain listing of an area is /national/2009/<area>/.  A request differs
\* from it in some parts: another event type, another year, an area_id, or a
\* query parameter, each with one of the values below.
PartNames == {"event_type", "year", "area_id"} \cup ArgNames

Values(part) ==
    CASE part = "event_type" -> EventTypeInputs \ {"national"}
      [] part = "year" -> YearInputs \ {"2009"}
      [] part = "page" -> PageInputs
      [] part = "per_page" -> PageInputs
      [] part = "all_results" -> {"true"}
      [] OTHER -> IdInputs

\* Every way of giving each of the parts one of its values.
RECURSIVE Assignments(_)
Assignments(parts) ==
    IF parts = {} THEN {<<>>}
    ELSE LET part == CHOOSE n \in parts : TRUE
         IN  {(part :> v) @@ rest :
                 v \in Values(part), rest \in Assignments(parts \ {part})}

Given(chosen, part, default) ==
    IF part \in DOMAIN chosen THEN chosen[part] ELSE default

ClientRequest(area, chosen) ==
    Request(Given(chosen, "event_type", "national"), Given(chosen, "year", "2009"),
            area, Given(chosen, "area_id", ""),
            [n \in ArgNames |-> Given(chosen, n, "")], "client")

ClientRequests ==
    {ClientRequest(area, chosen) :
        area \in AreaInputs,
        chosen \in UNION {Assignments(parts) :
                     parts \in {c \in SUBSET PartNames : Cardinality(c) <= MaxParts}}}

-----------------------------------------------------------------------------
(* The state machine *)

\* What the ingestion may have loaded before the API serves: all of 2004 or
\* nothing of it, and of 2009 the coarsest tables down to some depth.
Ingestions ==
    {Ingested(2004, depth2004, fan) \cup Ingested(2009, depth2009, fan) :
        depth2004 \in {0, Len(areas)}, depth2009 \in 0..Len(areas), fan \in {1, MaxId}}

\* A store that the schema's indexes and foreign keys hold of.
Init ==
    /\ store \in {s \in Ingestions : UniqueIndexes(s) /\ ForeignKeys(s)}
    /\ phase = "idle"
    /\ req = NoRequest
    /\ resp = NoResponse
    /\ log = <<>>

Answer(r) ==
    \E o \in results_by_area(r.event_type, r.year, r.area, r.area_id, r.args) :
        /\ req' = r
        /\ resp' = o.resp
        /\ log' = o.log
        /\ phase' = "done"
        /\ UNCHANGED store

\* A client sends a request and the handler answers it.
Get ==
    /\ phase = "idle"
    /\ \E r \in ClientRequests : Answer(r)

\* The client follows the next link of the envelope it got.
FollowNext ==
    /\ phase = "done"
    /\ resp.kind = "envelope"
    /\ resp.next # <<>>
    /\ Answer(resp.next[1])

\* The client is done with the response.
Close ==
    /\ phase = "done"
    /\ phase' = "idle"
    /\ req' = NoRequest
    /\ resp' = NoResponse
    /\ log' = <<>>
    /\ UNCHANGED store

Next == Get \/ FollowNext \/ Close

Spec == Init /\ [][Next]_vars

-----------------------------------------------------------------------------
(* What the properties speak of: the answered request and the store *)

Answered == phase = "done"

\* The path passed the three validators.
PathValid ==
    /\ validate_event_type(req.event_type).ok
    /\ validate_year(req.year).ok
    /\ validate_area(req.area).ok

TargetArea == Lower(req.area)
TargetYear == ParseInt(req.year)

\* The area parameters the query string gives a value.
Supplied == {f \in Range(areas) : req.args[f] # ""}

\* The finest of them.
Finest ==
    CHOOSE f \in Supplied : \A g \in Supplied : Index(areas, g) <= Index(areas, f)

FilterRefused ==
    /\ resp.status_code = 422
    /\ resp.message = "The specified filter parameter cannot be used in this query."

PagingValid ==
    /\ req.args.page # "" => IsInt(req.args.page)
    /\ req.args.per_page # "" => IsInt(req.args.per_page)

PageAsked == IF req.args.page = "" THEN 0 ELSE ParseInt(req.args.page)
PerPageAsked == IF req.args.per_page = "" THEN 50 ELSE ParseInt(req.args.per_page)
AllAsked == req.args.all_results # ""

\* The request is well formed: nothing in it is answered 422.
WellFormed ==
    /\ PathValid
    /\ Supplied # {} => Index(areas, Finest) < Index(areas, TargetArea)
    /\ PagingValid

SingleRequest == WellFormed /\ req.area_id # ""
CollectionRequest == WellFormed /\ req.area_id = ""

\* The fetch asks the database for nothing it may refuse.
FetchDefined == AllAsked \/ (PageAsked >= 0 /\ PerPageAsked >= 0)

\* The rows of a kind with a natural identifier, and those of a year among them.
RowsWithId(kind, id) == {r \in store : r.kind = kind /\ Str(r.id) = id}
EntityOf(kind, year, id) == {r \in RowsWithId(kind, id) : r.year = year}

\* The rows a collection request is about: the target area's rows of the year,
\* under a filter those that refer to the filter's entity of that year.
Matching ==
    LET ofYear == {r \in store : r.kind = TargetArea /\ r.year = TargetYear}
    IN  IF Supplied = {} THEN ofYear
        ELSE {r \in ofYear :
                 \E e \in EntityOf(Finest, TargetYear, req.args[Finest]) :
                     ParentPk(r, Finest) = e.pk}

\* The row at a position of the matching rows in ascending identifier order.
MatchingAt(k) ==
    CHOOSE r \in Matching : Cardinality({q \in Matching : q.id < r.id}) = k - 1

\* How many rows the page asked for holds.
PageLength ==
    LET left == Cardinality(Matching) - PageAsked * PerPageAsked
    IN  IF left <= 0 THEN 0 ELSE IF left <= PerPageAsked THEN left ELSE PerPageAsked

\* How many rows the request is to return.
ExpectedLength == IF AllAsked THEN Cardinality(Matching) ELSE PageLength

ReturnedRows == {resp.results[i].area : i \in 1..Len(resp.results)}

-----------------------------------------------------------------------------
(* Properties *)

\* C1: on a validated area, the candidate filter is refused with 422 exactly
\* when it is not strictly coarser than the area, whatever the paging
\* parameters are and whether or not an area_id is given.
C1_FilterAcceptedIffCoarser ==
    Answered /\ PathValid /\ filter_area(req.args) # "" =>
        (FilterRefused <=>
            ~(Index(areas, filter_area(req.args)) < Index(areas, TargetArea)))

\* C1 happens: /<event_type>/2009/municipality/<id>/?ward=<id>&page=<n> is
\* refused.
C1_Witness ==
    /\ Answered /\ PathValid
    /\ TargetArea = "municipality"
    /\ Supplied = {"ward"}
    /\ req.area_id # ""
    /\ req.args.page # ""
    /\ FilterRefused

\* C2: a filtered collection request filters on the filter's row of the
\* request's year: without such a row it is answered 404, and with one the
\* envelope counts the target rows of the year that refer to that row and
\* returns only such rows.
C2_FilterEntityOfYear ==
    Answered /\ CollectionRequest /\ Supplied # {} /\ FetchDefined =>
        IF EntityOf(Finest, TargetYear, req.args[Finest]) = {}
        THEN resp.status_code = 404
        ELSE IF ExpectedLength = 0
             THEN resp.kind # "envelope"
             ELSE /\ resp.kind = "envelope"
                  /\ resp.count = Cardinality(Matching)
                  /\ ReturnedRows \subseteq Matching

\* C3: a single-entity request that passes validation and whose area_id no
\* row of the target kind carries is answered 404.
C3_MissingEntityIs404 ==
    Answered /\ SingleRequest /\ RowsWithId(TargetArea, req.area_id) = {} =>
        resp.status_code = 404

\* C4: an envelope has a next link exactly when count > (page + 1) * per_page,
\* and the link is page + 1 of the same event type, year and area.
C4_NextIffMoreRows ==
    Answered /\ resp.kind = "envelope" =>
        /\ resp.next # <<>> <=> resp.count > (PageAsked + 1) * PerPageAsked
        /\ resp.next # <<>> =>
               /\ resp.next[1].event_type = Lower(req.event_type)
               /\ resp.next[1].year = req.year
               /\ resp.next[1].area = TargetArea
               /\ resp.next[1].area_id = ""
               /\ resp.next[1].args.page = Str(PageAsked + 1)

\* C4 happens: an envelope with a next link, and the page asked for is not
\* the default one.
C4_Witness ==
    /\ Answered
    /\ resp.kind = "envelope"
    /\ resp.next # <<>>
    /\ req.args.page # ""
    /\ PerPageAsked > 0

\* C5: a request made by following a next link is answered with an envelope.
C5_NextLinkIsValid ==
    Answered /\ req.via = "next" => resp.kind = "envelope"

\* C6: a well-formed collection request whose result list is empty is answered
\* 404, and no envelope has an empty result list.
C6_EmptyIs404 ==
    /\ Answered /\ resp.kind = "envelope" => Len(resp.results) > 0
    /\ Answered /\ CollectionRequest /\ FetchDefined /\ ExpectedLength = 0 =>
           resp.status_code = 404 /\ resp.kind = "error"

\* C6 happens: the filter entity is there and has no children.
C6_Witness ==
    /\ Answered /\ CollectionRequest /\ FetchDefined
    /\ Supplied # {}
    /\ EntityOf(Finest, TargetYear, req.args[Finest]) # {}
    /\ Matching = {}
    /\ resp.status_code = 404

\* C7: with all_results an envelope returns every matching row, as many as
\* its count, whatever page and per_page are.
C7_AllResultsReturnsCount ==
    Answered /\ resp.kind = "envelope" /\ AllAsked =>
        /\ Len(resp.results) = resp.count
        /\ ReturnedRows = Matching

\* C7 happens: more rows than the per_page asked for are returned.
C7_Witness ==
    /\ Answered /\ resp.kind = "envelope" /\ AllAsked
    /\ req.args.per_page # ""
    /\ PerPageAsked >= 0
    /\ Len(resp.results) > PerPageAsked

\* C8: a single-entity request returns the target row of the request's year
\* with the area_id, never a row of another year.
C8_EntityOfYear ==
    Answered /\ SingleRequest /\ resp.kind = "record" =>
        resp.results[1].area \in EntityOf(TargetArea, TargetYear, req.area_id)

\* C9: without all_results and with page >= 0 and per_page >= 0, an envelope
\* returns the positions page * per_page + 1 .. page * per_page + per_page of
\* the matching rows in ascending identifier order.
C9_PageIsSlice ==
    Answered /\ resp.kind = "envelope" /\ ~AllAsked
             /\ PageAsked >= 0 /\ PerPageAsked >= 0 =>
        /\ Len(resp.results) = PageLength
        /\ \A i \in 1..Len(resp.results) :
               resp.results[i].area = MatchingAt(PageAsked * PerPageAsked + i)

\* C9 happens: the second page of one row each.
C9_Witness ==
    /\ Answered /\ resp.kind = "envelope" /\ ~AllAsked
    /\ req.args.page # "" /\ PageAsked = 1
    /\ req.args.per_page # "" /\ PerPageAsked = 1

\* C10: of several area parameters only the finest is the filter: the 422 is
\* decided on it alone, and it alone is what the request filters on.
C10_FinestParameterWins ==
    Answered /\ PathValid /\ Cardinality(Supplied) >= 2 =>
        /\ FilterRefused <=> Index(areas, Finest) >= Index(areas, TargetArea)
        /\ log # <<>> => log = <<Finest, req.args[Finest]>>
        /\ CollectionRequest => log = <<Finest, req.args[Finest]>>

\* C10 happens: ward and province are given for the wards, and the request is
\* refused although the province could filter them.
C10_Witness ==
    /\ Answered /\ PathValid
    /\ TargetArea = "ward"
    /\ Supplied = {"ward", "province"}
    /\ FilterRefused

=============================================================================
